---- MODULE Spec2Model ----
(***************************************************************************)
(* A model of amazing_trace.py: execute_traceroute (the capture step),     *)
(* parse_traceroute (the hop line parser and its four regular               *)
(* expressions) and the collection loop of visualize_traceroute.            *)
(*                                                                         *)
(* A text is a sequence of one-character strings.  Python's None is the    *)
(* empty tuple and a present value x is the one-element tuple <<x>>.       *)
(***************************************************************************)
EXTENDS Integers, Sequences, FiniteSets, TLC

VARIABLES
    traceroute_output,  \* parse_traceroute: the argument
    hops,               \* parse_traceroute: the list it returns
    pc,                 \* parse_traceroute: "start", then "done" (returned) or "error" (raised)
    proc,               \* execute_traceroute: what the traceroute process did
    exec_ret,           \* execute_traceroute: the text it returns
    exec_pc,            \* execute_traceroute: "start", then "returned" or "raised"
    num_traces,         \* visualize_traceroute: the argument
    interval,           \* visualize_traceroute: the argument
    i,                  \* visualize_traceroute: the loop variable
    output,             \* visualize_traceroute: the capture of the run under way
    run_hops,           \* visualize_traceroute: the records parsed from it
    all_hops,           \* visualize_traceroute: the combined record set
    now,                \* the clock, in seconds
    events,             \* what the loop has done so far, in order
    vis_pc              \* visualize_traceroute: where the loop stands

parse_vars == <<traceroute_output, hops, pc>>
exec_vars == <<proc, exec_ret, exec_pc>>
vis_vars == <<num_traces, interval, i, output, run_hops, all_hops, now, events, vis_pc>>
vars == <<parse_vars, exec_vars, vis_vars>>

None == <<>>
Some(x) == <<x>>

(***************************************************************************)
(* Characters.                                                             *)
(***************************************************************************)
Digits == {"0", "1", "2", "3", "4", "5", "6", "7", "8", "9"}
WhiteSpace == {" ", "\t", "\n", "\r", "\f"}

DigitValue(c) ==
    CASE c = "0" -> 0 [] c = "1" -> 1 [] c = "2" -> 2 [] c = "3" -> 3
      [] c = "4" -> 4 [] c = "5" -> 5 [] c = "6" -> 6 [] c = "7" -> 7
      [] c = "8" -> 8 [] c = "9" -> 9

\* The character classes the four patterns use.
InClass(cls, c) ==
    CASE cls = "\\d"      -> c \in Digits
      [] cls = "\\s"      -> c \in WhiteSpace
      [] cls = "\\S"      -> c \notin WhiteSpace
      [] cls = "."        -> c # "\n"
      [] cls = "[^\\s\\(]" -> c \notin WhiteSpace /\ c # "("
      [] cls = "\\."      -> c = "."
      [] cls = "\\*"      -> c = "*"
      [] cls = "\\("      -> c = "("
      [] cls = "\\)"      -> c = ")"
      [] OTHER            -> c = cls

SetMin(S) == CHOOSE x \in S : \A y \in S : x <= y

(***************************************************************************)
(* The regular expression matcher: Python's backtracking search, on a      *)
(* pattern given as a list of nodes.  A quantifier is greedy and gives     *)
(* back one character at a time; an alternation tries its left branch      *)
(* first; the first way through the whole list wins.                       *)
(***************************************************************************)
Chr(cls)        == [t |-> "chr", c |-> cls]
Rep(cls, least) == [t |-> "rep", c |-> cls, min |-> least]
Opt(sub)        == [t |-> "opt", sub |-> sub]
Alt(left, right) == [t |-> "alt", a |-> left, b |-> right]
Open(g)         == [t |-> "open", g |-> g]
Close(g)        == [t |-> "close", g |-> g]
Bol             == [t |-> "bol"]
Eol             == [t |-> "eol"]

NoGroup == <<0, 0>>
NoCaps == <<NoGroup, NoGroup>>
NoMatch == [ok |-> FALSE, start |-> 0, end |-> 0, caps |-> NoCaps]

\* The first position from at on that holds no character of the class.
RunEnd(cls, s, at) ==
    IF at > Len(s) \/ ~InClass(cls, s[at]) THEN at
    ELSE SetMin({j \in (at + 1)..(Len(s) + 1) : j = Len(s) + 1 \/ ~InClass(cls, s[j])})

RECURSIVE MatchAt(_, _, _, _, _), RepTry(_, _, _, _, _, _)
MatchAt(nodes, s, from, at, caps) ==
    IF Len(nodes) = 0 THEN [ok |-> TRUE, start |-> from, end |-> at, caps |-> caps]
    ELSE LET h == Head(nodes)
             rest == Tail(nodes)
         IN CASE h.t = "chr" ->
                   IF at <= Len(s) /\ InClass(h.c, s[at])
                   THEN MatchAt(rest, s, from, at + 1, caps) ELSE NoMatch
              [] h.t = "rep" ->
                   RepTry(rest, s, from, at + h.min, RunEnd(h.c, s, at), caps)
              [] h.t = "opt" ->
                   LET with == MatchAt(h.sub \o rest, s, from, at, caps)
                   IN IF with.ok THEN with ELSE MatchAt(rest, s, from, at, caps)
              [] h.t = "alt" ->
                   LET left == MatchAt(h.a \o rest, s, from, at, caps)
                   IN IF left.ok THEN left ELSE MatchAt(h.b \o rest, s, from, at, caps)
              [] h.t = "open" ->
                   MatchAt(rest, s, from, at, [caps EXCEPT ![h.g] = <<at, at>>])
              [] h.t = "close" ->
                   MatchAt(rest, s, from, at, [caps EXCEPT ![h.g] = <<caps[h.g][1], at>>])
              [] h.t = "bol" ->
                   IF at = 1 THEN MatchAt(rest, s, from, at, caps) ELSE NoMatch
              [] h.t = "eol" ->
                   IF at = Len(s) + 1 \/ (at = Len(s) /\ s[at] = "\n")
                   THEN MatchAt(rest, s, from, at, caps) ELSE NoMatch

\* A greedy repetition that may end anywhere in least..most: the longest first,
\* one character given back after each failure of the rest of the pattern.
RepTry(rest, s, from, least, most, caps) ==
    IF most < least THEN NoMatch
    ELSE LET m == MatchAt(rest, s, from, most, caps)
         IN IF m.ok THEN m ELSE RepTry(rest, s, from, least, most - 1, caps)

\* pattern.match(s): at the start of s only.
ReMatch(pattern, s) == MatchAt(pattern, s, 1, 1, NoCaps)

\* pattern.search(s), from position pos: the leftmost match.
RECURSIVE ReSearchFrom(_, _, _)
ReSearchFrom(pattern, s, pos) ==
    IF pos > Len(s) + 1 THEN NoMatch
    ELSE LET m == MatchAt(pattern, s, pos, pos, NoCaps)
         IN IF m.ok THEN m ELSE ReSearchFrom(pattern, s, pos + 1)

ReSearch(pattern, s) == ReSearchFrom(pattern, s, 1)

\* match.group(g): None for a group that took no part in the match.
Group(m, s, g) ==
    IF m.caps[g] = NoGroup THEN None
    ELSE Some(SubSeq(s, m.caps[g][1], m.caps[g][2] - 1))

\* pattern.finditer(s): the matches left to right, each search starting where
\* the match before it ended (no pattern here matches the empty string).
RECURSIVE FindIterFrom(_, _, _)
FindIterFrom(pattern, s, pos) ==
    LET m == ReSearchFrom(pattern, s, pos)
    IN IF ~m.ok THEN <<>>
       ELSE <<m>> \o FindIterFrom(pattern, s, IF m.end > m.start THEN m.end ELSE m.end + 1)

FindIter(pattern, s) == FindIterFrom(pattern, s, 1)

(***************************************************************************)
(* The four patterns of parse_traceroute.                                  *)
(***************************************************************************)
\* r'^(\d+)\s+(.*)$'
hop_line_regex ==
    <<Bol, Open(1), Rep("\\d", 1), Close(1), Rep("\\s", 1),
      Open(2), Rep(".", 0), Close(2), Eol>>

\* A faulty variant of time_pattern: the annotation flag is not part of the token.
time_pattern_no_flag ==
    <<Alt(<<Open(1), Chr("\\*"), Close(1)>>,
          <<Open(2), Rep("\\d", 1), Opt(<<Chr("\\."), Rep("\\d", 1)>>), Close(2),
            Rep("\\s", 0), Chr("m"), Chr("s")>>)>>

\* r'(\*)|(\d+(?:\.\d+)?)\s*ms(?:\s*!\S+)?'
time_pattern ==
    <<Alt(<<Open(1), Chr("\\*"), Close(1)>>,
          <<Open(2), Rep("\\d", 1), Opt(<<Chr("\\."), Rep("\\d", 1)>>), Close(2),
            Rep("\\s", 0), Chr("m"), Chr("s"),
            Opt(<<Rep("\\s", 0), Chr("!"), Rep("\\S", 1)>>)>>)>>

\* r'(\d+\.\d+\.\d+\.\d+)' without its group
DottedQuad ==
    <<Rep("\\d", 1), Chr("\\."), Rep("\\d", 1), Chr("\\."),
      Rep("\\d", 1), Chr("\\."), Rep("\\d", 1)>>

\* r'([^\s\(]+)\s*\((\d+\.\d+\.\d+\.\d+)\)'
host_ip_pattern ==
    <<Open(1), Rep("[^\\s\\(]", 1), Close(1), Rep("\\s", 0), Chr("\\(")>>
    \o <<Open(2)>> \o DottedQuad \o <<Close(2), Chr("\\)")>>

\* r'(\d+\.\d+\.\d+\.\d+)'
ip_pattern == <<Open(1)>> \o DottedQuad \o <<Close(1)>>

(***************************************************************************)
(* str.split('\n') and str.strip().                                        *)
(***************************************************************************)
NewlinesOf(s) == {k \in 1..Len(s) : s[k] = "\n"}

\* The k-th newline of s; 0 before the first and Len(s) + 1 after the last.
NthNewline(s, k) ==
    IF k = 0 THEN 0
    ELSE IF k > Cardinality(NewlinesOf(s)) THEN Len(s) + 1
    ELSE CHOOSE p \in NewlinesOf(s) : Cardinality({q \in NewlinesOf(s) : q < p}) = k - 1

Split(s) ==
    [k \in 1..(Cardinality(NewlinesOf(s)) + 1) |->
        SubSeq(s, NthNewline(s, k - 1) + 1, NthNewline(s, k) - 1)]

Strip(s) ==
    LET inked == {k \in 1..Len(s) : s[k] \notin WhiteSpace}
        first == SetMin(inked)
        last  == Len(s) + 1 - SetMin({Len(s) + 1 - k : k \in inked})
    IN IF inked = {} THEN <<>> ELSE SubSeq(s, first, last)

(***************************************************************************)
(* int() and float().                                                      *)
(***************************************************************************)
\* CPython's limit on the digits of a string that int() converts
\* (sys.int_info.default_max_str_digits): a longer string raises ValueError.
IntMaxStrDigits == 4300

IntRaises(digits) == Len(digits) > IntMaxStrDigits

RECURSIVE ToInt(_)
ToInt(digits) ==
    IF Len(digits) = 0 THEN 0
    ELSE 10 * ToInt(SubSeq(digits, 1, Len(digits) - 1)) + DigitValue(digits[Len(digits)])

RECURSIVE DropTrailingZeros(_)
DropTrailingZeros(digits) ==
    IF Len(digits) > 0 /\ digits[Len(digits)] = "0"
    THEN DropTrailingZeros(SubSeq(digits, 1, Len(digits) - 1))
    ELSE digits

\* float() of a text that is digits, or digits "." digits: the number, as its
\* whole part and the digits of its fraction (1.50 and 1.5 are the same number).
ToFloat(text) ==
    LET dots == {k \in 1..Len(text) : text[k] = "."}
        dot == IF dots = {} THEN Len(text) + 1 ELSE SetMin(dots)
    IN [whole |-> ToInt(SubSeq(text, 1, dot - 1)),
        frac  |-> DropTrailingZeros(SubSeq(text, dot + 1, Len(text)))]

(***************************************************************************)
(* parse_traceroute.                                                       *)
(***************************************************************************)
\* Lines 106-114: one slot per match of time_pattern.
RttValues(rest) ==
    LET matches == FindIter(time_pattern, rest)
    IN [k \in 1..Len(matches) |->
          IF Group(matches[k], rest, 1) = Some(<<"*">>) THEN None
          ELSE Some(ToFloat(Group(matches[k], rest, 2)[1]))]

\* A faulty variant of Identity: no fallback to a bare address.
IdentityTierOneOnly(rest) ==
    LET match_host_ip == ReSearch(host_ip_pattern, rest)
        possible_hostname == Group(match_host_ip, rest, 1)
        possible_ip == Group(match_host_ip, rest, 2)
    IN IF match_host_ip.ok
       THEN <<possible_ip, IF possible_hostname = possible_ip THEN None ELSE possible_hostname>>
       ELSE <<None, None>>

\* A faulty variant of Identity: a name equal to the address is kept.
IdentityKeepingName(rest) ==
    LET match_host_ip == ReSearch(host_ip_pattern, rest)
        match_ip == ReSearch(ip_pattern, rest)
    IN IF match_host_ip.ok
       THEN <<Group(match_host_ip, rest, 2), Group(match_host_ip, rest, 1)>>
       ELSE IF match_ip.ok THEN <<Group(match_ip, rest, 1), None>>
       ELSE <<None, None>>

\* A faulty variant of Identity: the bare address is looked for first.
IdentityBareFirst(rest) ==
    LET match_host_ip == ReSearch(host_ip_pattern, rest)
        possible_hostname == Group(match_host_ip, rest, 1)
        possible_ip == Group(match_host_ip, rest, 2)
        match_ip == ReSearch(ip_pattern, rest)
    IN IF match_ip.ok THEN <<Group(match_ip, rest, 1), None>>
       ELSE IF match_host_ip.ok
       THEN <<possible_ip, IF possible_hostname = possible_ip THEN None ELSE possible_hostname>>
       ELSE <<None, None>>

\* Lines 116-135: the responder, as <<ip, hostname>>.
Identity(rest) ==
    LET match_host_ip == ReSearch(host_ip_pattern, rest)
        possible_hostname == Group(match_host_ip, rest, 1)
        possible_ip == Group(match_host_ip, rest, 2)
        match_ip == ReSearch(ip_pattern, rest)
    IN IF match_host_ip.ok
       THEN <<possible_ip, IF possible_hostname = possible_ip THEN None ELSE possible_hostname>>
       ELSE IF match_ip.ok THEN <<Group(match_ip, rest, 1), None>>
       ELSE <<None, None>>

\* A faulty variant of HopNumber: hops counted from zero.
HopNumberZeroBased(digits) == ToInt(digits) - 1

\* Line 99: hop_num = int(hop_match.group(1)).
HopNumber(digits) == ToInt(digits)

\* Lines 99-146: the record of a line that hop_line_regex matched.
HopInfo(line, hop_match) ==
    LET rest == Group(hop_match, line, 2)[1]
        id == Identity(rest)
    IN [hop |-> HopNumber(Group(hop_match, line, 1)[1]),
        ip |-> id[1],
        hostname |-> id[2],
        rtt |-> RttValues(rest)]

\* A faulty variant of ParseLine: a line on which nothing was found gives no record.
ParseLineDroppingEmpty(acc, raw) ==
    LET line == Strip(raw)
        hop_match == ReMatch(hop_line_regex, line)
        info == HopInfo(line, hop_match)
    IN IF acc.raised \/ Len(line) = 0 \/ ~hop_match.ok THEN acc
       ELSE IF IntRaises(Group(hop_match, line, 1)[1]) THEN [acc EXCEPT !.raised = TRUE]
       ELSE IF info.ip = None /\ info.rtt = <<>> THEN acc
       ELSE [acc EXCEPT !.hops = Append(@, info)]

\* A faulty variant of ParseLine: a hop number already in the list is not added again.
ParseLineMerging(acc, raw) ==
    LET line == Strip(raw)
        hop_match == ReMatch(hop_line_regex, line)
        info == HopInfo(line, hop_match)
    IN IF acc.raised \/ Len(line) = 0 \/ ~hop_match.ok THEN acc
       ELSE IF IntRaises(Group(hop_match, line, 1)[1]) THEN [acc EXCEPT !.raised = TRUE]
       ELSE IF \E k \in DOMAIN acc.hops : acc.hops[k].hop = info.hop THEN acc
       ELSE [acc EXCEPT !.hops = Append(@, info)]

\* Lines 88-146: one pass of the loop over one line, from the list so far.
ParseLine(acc, raw) ==
    LET line == Strip(raw)
        hop_match == ReMatch(hop_line_regex, line)
    IN IF acc.raised \/ Len(line) = 0 \/ ~hop_match.ok THEN acc
       ELSE IF IntRaises(Group(hop_match, line, 1)[1]) THEN [acc EXCEPT !.raised = TRUE]
       ELSE [acc EXCEPT !.hops = Append(@, HopInfo(line, hop_match))]

RECURSIVE ParseLines(_, _)
ParseLines(acc, lines) ==
    IF Len(lines) = 0 THEN acc
    ELSE ParseLines(ParseLine(acc, Head(lines)), Tail(lines))

\* Lines 72-148.
ParseTraceroute(text) == ParseLines([raised |-> FALSE, hops |-> <<>>], Split(text))

(***************************************************************************)
(* execute_traceroute.                                                     *)
(***************************************************************************)
\* A faulty variant of ExecuteTraceroute: the except branch returns e.stdout alone.
ExecuteTracerouteStdoutOnly(p) ==
    IF ~p.started THEN [raised |-> TRUE, text |-> <<>>]
    ELSE [raised |-> FALSE, text |-> p.stdout]

\* Lines 25-36.  subprocess.run with check=True raises CalledProcessError on a
\* non-zero exit status, which line 33 catches; a traceroute that could not be
\* started raises an OSError, which nothing catches.
ExecuteTraceroute(p) ==
    IF ~p.started THEN [raised |-> TRUE, text |-> <<>>]
    ELSE IF p.returncode = 0 THEN [raised |-> FALSE, text |-> p.stdout]
    ELSE [raised |-> FALSE, text |-> p.stdout \o <<"\n">> \o p.stderr]

(***************************************************************************)
(* visualize_traceroute: the collection loop, lines 166-190.               *)
(***************************************************************************)
\* A faulty variant of ShouldWait: every pass sleeps, the first one too.
ShouldWaitAlways(k) == k >= 0

\* Line 174: whether the pass with loop variable k sleeps before its trace.
ShouldWait(k) == k > 0

\* Line 183: time.strftime("%H:%M:%S").
Strftime(t) == <<(t \div 3600) % 24, (t \div 60) % 60, t % 60>>

\* Lines 184-187: the records of one run, tagged.
Tagged(records, trace_num, timestamp) ==
    [k \in 1..Len(records) |->
        [hop |-> records[k].hop, ip |-> records[k].ip, hostname |-> records[k].hostname,
         rtt |-> records[k].rtt, trace_num |-> trace_num, timestamp |-> timestamp]]

Event(kind, run, text, stamp) == [kind |-> kind, run |-> run, text |-> text, stamp |-> stamp]

(***************************************************************************)
(* Inputs.                                                                 *)
(***************************************************************************)
RECURSIVE TextsOf(_, _)
TextsOf(frags, n) ==
    IF n = 0 THEN {<<>>}
    ELSE LET shorter == TextsOf(frags, n - 1)
         IN shorter \cup {t \o f : t \in shorter, f \in frags}

DigitRun(n) == [k \in 1..n |-> "1"]

\* Texts whose hop number int() refuses.
LongTexts ==
    {DigitRun(IntMaxStrDigits + 1) \o <<" ", "a">>,
     <<"1", " ", "a", "\n">> \o DigitRun(IntMaxStrDigits + 1) \o <<" ", "a">>}

\* Whole texts, of several lines.
MaxLineFrags == 5
LineFrags == {<<"0">>, <<"1">>, <<" ">>, <<"a">>, <<"\n">>, <<"1", " ", "a">>}

\* One hop line, "1 " and a payload of timing tokens and what resembles them.
MaxRttFrags == 4
RttFrags == {<<"1">>, <<"0">>, <<".">>, <<" ">>, <<"*">>, <<"m", "s">>, <<"!">>, <<"a">>}

\* One hop line, "1 " and a payload of names and addresses.
MaxIdFrags == 3
IdFrags ==
    {<<"1", ".", "1", ".", "1", ".", "1">>,
     <<"(", "1", ".", "1", ".", "1", ".", "1", ")">>,
     <<"(", "2", ".", "2", ".", "2", ".", "2", ")">>,
     <<"a">>, <<" ">>, <<"(">>, <<")">>, <<".">>, <<"1">>, <<"5", "m", "s">>}

HopPrefix == <<"1", " ">>

\* What a traceroute process can have done.
MaxOut == 2
OutTexts == TextsOf({<<"a">>, <<"b">>, <<"\n">>}, MaxOut)
NotStarted == [started |-> FALSE, returncode |-> 0, stdout |-> <<>>, stderr |-> <<>>]
Procs ==
    {NotStarted} \cup
    [started : {TRUE}, returncode : {0, 1, -9}, stdout : OutTexts, stderr : OutTexts]

\* The traceroute processes of the collection loop.
MaxTraces == 2
CaptureProcs ==
    {NotStarted,
     [started |-> TRUE, returncode |-> 0, stdout |-> <<"1", " ", "a">>, stderr |-> <<>>],
     [started |-> TRUE, returncode |-> 0,
      stdout |-> <<"h", "\n", "1", " ", "a", "\n", "2", " ", "*">>, stderr |-> <<>>],
     [started |-> TRUE, returncode |-> 1, stdout |-> <<"1", " ", "*">>, stderr |-> <<"e">>],
     [started |-> TRUE, returncode |-> 0,
      stdout |-> DigitRun(IntMaxStrDigits + 1) \o <<" ", "a">>, stderr |-> <<>>]}
Intervals == {0, 5}
StartTimes == {0, 86398}
MaxTick == 1

ParseIdle == traceroute_output = <<>> /\ hops = <<>> /\ pc = "idle"
ExecIdle == proc = NotStarted /\ exec_ret = <<>> /\ exec_pc = "idle"
VisIdle ==
    /\ num_traces = 0 /\ interval = 0 /\ i = 0 /\ output = <<>> /\ run_hops = <<>>
    /\ all_hops = <<>> /\ now = 0 /\ events = <<>> /\ vis_pc = "idle"

ParseInit(texts) ==
    /\ traceroute_output \in texts
    /\ hops = <<>>
    /\ pc = "start"
    /\ ExecIdle /\ VisIdle

Init == ParseInit(TextsOf(LineFrags, MaxLineFrags) \cup LongTexts)
InitRtt == ParseInit({HopPrefix \o t : t \in TextsOf(RttFrags, MaxRttFrags)})
InitIdentity == ParseInit({HopPrefix \o t : t \in TextsOf(IdFrags, MaxIdFrags)})

InitExecute ==
    /\ proc \in Procs
    /\ exec_ret = <<>>
    /\ exec_pc = "start"
    /\ ParseIdle /\ VisIdle

InitVisualize ==
    /\ num_traces \in 1..MaxTraces
    /\ interval \in Intervals
    /\ now \in StartTimes
    /\ i = 0 /\ output = <<>> /\ run_hops = <<>> /\ all_hops = <<>>
    /\ events = <<>>
    /\ vis_pc = "loop"
    /\ ParseIdle /\ ExecIdle

(***************************************************************************)
(* Actions.                                                                *)
(***************************************************************************)
\* A call of parse_traceroute.
Parse ==
    /\ pc = "start"
    /\ LET r == ParseTraceroute(traceroute_output)
       IN /\ pc' = IF r.raised THEN "error" ELSE "done"
          /\ hops' = IF r.raised THEN <<>> ELSE r.hops
    /\ UNCHANGED <<traceroute_output, exec_vars, vis_vars>>

\* A call of execute_traceroute.
Execute ==
    /\ exec_pc = "start"
    /\ LET r == ExecuteTraceroute(proc)
       IN /\ exec_pc' = IF r.raised THEN "raised" ELSE "returned"
          /\ exec_ret' = r.text
    /\ UNCHANGED <<proc, parse_vars, vis_vars>>

\* Lines 173-176: the loop takes its next value and sleeps if it is not the first.
VisEnter ==
    /\ vis_pc = "loop"
    /\ i < num_traces
    /\ IF ShouldWait(i)
       THEN /\ now' = now + interval
            /\ events' = Append(events, Event("wait", i + 1, <<>>, <<>>))
       ELSE UNCHANGED <<now, events>>
    /\ vis_pc' = "capture"
    /\ UNCHANGED <<num_traces, interval, i, output, run_hops, all_hops, parse_vars, exec_vars>>

\* Line 179: output = execute_traceroute(destination); the trace takes its time.
VisCapture ==
    /\ vis_pc = "capture"
    /\ \E p \in CaptureProcs, took \in 0..MaxTick :
          LET r == ExecuteTraceroute(p)
          IN /\ now' = now + took
             /\ IF r.raised
                THEN /\ vis_pc' = "error"
                     /\ UNCHANGED <<output, events>>
                ELSE /\ vis_pc' = "parse"
                     /\ output' = r.text
                     /\ events' = Append(events, Event("capture", i + 1, r.text, <<>>))
    /\ UNCHANGED <<num_traces, interval, i, run_hops, all_hops, parse_vars, exec_vars>>

\* Line 180: hops = parse_traceroute(output).
VisParse ==
    /\ vis_pc = "parse"
    /\ LET r == ParseTraceroute(output)
       IN IF r.raised
          THEN /\ vis_pc' = "error"
               /\ UNCHANGED <<run_hops, events>>
          ELSE /\ vis_pc' = "tag"
               /\ run_hops' = r.hops
               /\ events' = Append(events, Event("parse", i + 1, <<>>, <<>>))
    /\ UNCHANGED <<num_traces, interval, i, output, all_hops, now, parse_vars, exec_vars>>

\* Lines 183-187: one timestamp, then every record of the run tagged and appended.
VisTag ==
    /\ vis_pc = "tag"
    /\ LET timestamp == Strftime(now)
       IN /\ all_hops' = all_hops \o Tagged(run_hops, i + 1, timestamp)
          /\ events' = Append(events, Event("stamp", i + 1, <<>>, timestamp))
    /\ i' = i + 1
    /\ vis_pc' = "loop"
    /\ UNCHANGED <<num_traces, interval, output, run_hops, now, parse_vars, exec_vars>>

\* Line 190: the loop is over.
VisDone ==
    /\ vis_pc = "loop"
    /\ i >= num_traces
    /\ vis_pc' = "done"
    /\ UNCHANGED <<num_traces, interval, i, output, run_hops, all_hops, now, events,
                   parse_vars, exec_vars>>

Next == Parse
NextExecute == Execute
NextVisualize == VisEnter \/ VisCapture \/ VisParse \/ VisTag \/ VisDone

Spec == Init /\ [][Next]_vars
SpecRtt == InitRtt /\ [][Next]_vars
SpecIdentity == InitIdentity /\ [][Next]_vars
SpecExecute == InitExecute /\ [][NextExecute]_vars
SpecVisualize == InitVisualize /\ [][NextVisualize]_vars

(***************************************************************************)
(* What the claims speak of, read off the text character by character.     *)
(***************************************************************************)
\* How many characters from position k on are (are not) in the set.
SpanIn(chars, s, k) ==
    SetMin({j \in k..(Len(s) + 1) : j = Len(s) + 1 \/ s[j] \notin chars}) - k
SpanNotIn(chars, s, k) ==
    SetMin({j \in k..(Len(s) + 1) : j = Len(s) + 1 \/ s[j] \in chars}) - k

CharAt(s, k) == IF k >= 1 /\ k <= Len(s) THEN s[k] ELSE "end"

IsPrefix(a, b) == Len(a) <= Len(b) /\ SubSeq(b, 1, Len(a)) = a
IsSuffix(a, b) == Len(a) <= Len(b) /\ SubSeq(b, Len(b) - Len(a) + 1, Len(b)) = a
Contains(t, sub) == \E k \in 0..(Len(t) - Len(sub)) : SubSeq(t, k + 1, k + Len(sub)) = sub

\* A hop-number prefix: digits at the start of the line, then whitespace.
HasHopPrefix(line) ==
    /\ SpanIn(Digits, line, 1) >= 1
    /\ SpanIn(WhiteSpace, line, SpanIn(Digits, line, 1) + 1) >= 1

PhysicalLines(text) == Split(text)
TrimmedLines(text) == [k \in DOMAIN Split(text) |-> Strip(Split(text)[k])]

\* The trimmed lines that have a hop-number prefix, in order.
HopLines(text) == SelectSeq(TrimmedLines(text), HasHopPrefix)
LeadingDigits(line) == SubSeq(line, 1, SpanIn(Digits, line, 1))
Payload(line) ==
    LET d == SpanIn(Digits, line, 1)
    IN SubSeq(line, d + SpanIn(WhiteSpace, line, d + 1) + 1, Len(line))

Returned == pc = "done"

(***************************************************************************)
(* parse_traceroute: which lines give a record.                            *)
(***************************************************************************)
\* C1, as stated: the list returned has one record for each physical line that has
\* a hop-number prefix (an integer at the start of the line, then whitespace, then
\* the remainder), and none for any other line.
C1_RecordPerPrefixedPhysicalLine ==
    Returned =>
        Len(hops) = Cardinality({k \in DOMAIN PhysicalLines(traceroute_output) :
                                    HasHopPrefix(PhysicalLines(traceroute_output)[k])})

\* C1, amended: the list returned has one record for each line whose text, with
\* the whitespace around it trimmed, has a hop-number prefix, and none for any
\* other line; such a line gives a record whatever else is found on it.
C1_RecordPerPrefixedTrimmedLine ==
    Returned =>
        Len(hops) = Cardinality({k \in DOMAIN TrimmedLines(traceroute_output) :
                                    HasHopPrefix(TrimmedLines(traceroute_output)[k])})

\* A text with a line that gives no record and a line that gives a record with
\* no address, no name and no timing.
C1_Witness ==
    /\ Returned
    /\ Len(hops) >= 1
    /\ Len(PhysicalLines(traceroute_output)) > Len(hops)
    /\ \E k \in DOMAIN hops :
          hops[k].ip = None /\ hops[k].hostname = None /\ hops[k].rtt = <<>>

(***************************************************************************)
(* parse_traceroute: the hop number.                                       *)
(***************************************************************************)
\* C4, as stated: the hop of every record returned is a positive integer.
C4_HopPositive == Returned => \A k \in DOMAIN hops : hops[k].hop >= 1

\* C4, amended: the hop of every record returned is a non-negative integer, the
\* value of the digits that start its line: it is 0 exactly when they are all "0".
C4_HopNonNegative ==
    Returned =>
        \A k \in DOMAIN hops :
            /\ hops[k].hop \in Nat
            /\ k <= Len(HopLines(traceroute_output))
            /\ hops[k].hop = 0 <=>
                  \A d \in DOMAIN LeadingDigits(HopLines(traceroute_output)[k]) :
                      LeadingDigits(HopLines(traceroute_output)[k])[d] = "0"

\* A record with hop 0.
C4_Witness == Returned /\ \E k \in DOMAIN hops : hops[k].hop = 0

(***************************************************************************)
(* parse_traceroute: failure.                                              *)
(***************************************************************************)
\* C5: parse_traceroute raises no error, whatever the text.
C5_NeverRaises == pc # "error"

(***************************************************************************)
(* parse_traceroute: no memory from line to line.                          *)
(***************************************************************************)
\* C7: the list returned for a text is, at each of its line breaks, the list for
\* the text before the break followed by the list for the text after it: input
\* order is kept and nothing is sorted, merged or dropped by hop number.
C7_Concatenation ==
    Returned =>
        \A p \in NewlinesOf(traceroute_output) :
            LET before == ParseTraceroute(SubSeq(traceroute_output, 1, p - 1))
                after == ParseTraceroute(
                            SubSeq(traceroute_output, p + 1, Len(traceroute_output)))
            IN /\ ~before.raised /\ ~after.raised
               /\ hops = before.hops \o after.hops

\* Two lines with the same hop number, each with its own record.
C7_Witness ==
    /\ Returned
    /\ Len(hops) = 2
    /\ hops[1].hop = hops[2].hop
    /\ Len(HopLines(traceroute_output)) = 2

(***************************************************************************)
(* parse_traceroute: the timing slots.                                     *)
(***************************************************************************)
\* The asterisks of a payload that are whitespace-delimited tokens on their own.
StandaloneAsterisks(s) ==
    {k \in 1..Len(s) :
        /\ s[k] = "*"
        /\ (k = 1 \/ s[k - 1] \in WhiteSpace)
        /\ (k = Len(s) \/ s[k + 1] \in WhiteSpace)}

AbsentSlots(rtt) == {k \in DOMAIN rtt : rtt[k] = None}

\* The timing tokens of a payload, read left to right from position k.  A token
\* is any asterisk, or a number (digits, or digits "." digits) with, after any
\* whitespace, "ms"; the token goes on over a flag (any whitespace, "!" and the
\* non-whitespace characters after it) when one follows.  What a token covers is
\* not read again.
RECURSIVE TimingSlots(_, _)
TimingSlots(s, k) ==
    IF k > Len(s) THEN <<>>
    ELSE IF s[k] = "*" THEN <<None>> \o TimingSlots(s, k + 1)
    ELSE IF s[k] \notin Digits THEN TimingSlots(s, k + 1)
    ELSE LET whole == k + SpanIn(Digits, s, k)
             number == IF CharAt(s, whole) = "." /\ CharAt(s, whole + 1) \in Digits
                       THEN whole + 1 + SpanIn(Digits, s, whole + 1) ELSE whole
             unit == number + SpanIn(WhiteSpace, s, number)
             bang == unit + 2 + SpanIn(WhiteSpace, s, unit + 2)
             end == IF CharAt(s, bang) = "!" /\ bang < Len(s)
                       /\ s[bang + 1] \notin WhiteSpace
                    THEN bang + 1 + SpanNotIn(WhiteSpace, s, bang + 1) ELSE unit + 2
         IN IF CharAt(s, unit) = "m" /\ CharAt(s, unit + 1) = "s"
            THEN <<Some(ToFloat(SubSeq(s, k, number - 1)))>> \o TimingSlots(s, end)
            ELSE TimingSlots(s, k + 1)

\* C2, as stated: the absent slots of a record's rtt are the standalone asterisks
\* of its payload, one slot each.
C2_AbsentSlotPerStandaloneAsterisk ==
    Returned =>
        \A k \in DOMAIN hops :
            Cardinality(AbsentSlots(hops[k].rtt))
                = Cardinality(StandaloneAsterisks(Payload(HopLines(traceroute_output)[k])))

\* C2, amended: a record's rtt has one slot for each timing token of its payload,
\* in order, nothing added and nothing left out, where a token is any asterisk
\* (standalone or not) that no earlier token's flag covers, giving an absent slot,
\* or a number followed, after any whitespace, by "ms", giving its value; a flag
\* after the unit adds no slot and leaves the value as it is.
C2_SlotPerTimingToken ==
    Returned =>
        \A k \in DOMAIN hops :
            hops[k].rtt = TimingSlots(Payload(HopLines(traceroute_output)[k]), 1)

\* A record with an absent slot from an asterisk that is not standalone, and a
\* numeric slot beside it.
C2_Witness ==
    /\ Returned
    /\ \E k \in DOMAIN hops :
          /\ Cardinality(AbsentSlots(hops[k].rtt))
                > Cardinality(StandaloneAsterisks(Payload(HopLines(traceroute_output)[k])))
          /\ \E j \in DOMAIN hops[k].rtt : hops[k].rtt[j] # None

(***************************************************************************)
(* parse_traceroute: the responder.                                        *)
(***************************************************************************)
\* The position after a dotted quad that starts at k (four groups of digits with
\* a dot between each two), or 0 when none starts there.
QuadEnd(s, k) ==
    LET g1 == k + SpanIn(Digits, s, k)
        g2 == g1 + 1 + SpanIn(Digits, s, g1 + 1)
        g3 == g2 + 1 + SpanIn(Digits, s, g2 + 1)
        g4 == g3 + 1 + SpanIn(Digits, s, g3 + 1)
    IN IF /\ g1 > k /\ CharAt(s, g1) = "."
          /\ g2 > g1 + 1 /\ CharAt(s, g2) = "."
          /\ g3 > g2 + 1 /\ CharAt(s, g3) = "."
          /\ g4 > g3 + 1
       THEN g4 ELSE 0

QuadStarts(s) == {k \in 1..Len(s) : QuadEnd(s, k) > 0}
HasQuad(s) == QuadStarts(s) # {}
FirstQuad(s) == SubSeq(s, SetMin(QuadStarts(s)), QuadEnd(s, SetMin(QuadStarts(s))) - 1)

\* A name(address) composite whose name starts at k: the characters from k up to
\* whitespace or an opening parenthesis, then any whitespace, then a dotted quad
\* in parentheses.  The position of the quad's opening parenthesis, or 0.
NameEnd(s, k) == k + SpanNotIn(WhiteSpace \cup {"("}, s, k)
CompositeParen(s, k) ==
    LET paren == NameEnd(s, k) + SpanIn(WhiteSpace, s, NameEnd(s, k))
    IN IF /\ NameEnd(s, k) > k
          /\ CharAt(s, paren) = "("
          /\ QuadEnd(s, paren + 1) > 0
          /\ CharAt(s, QuadEnd(s, paren + 1)) = ")"
       THEN paren ELSE 0

CompositeStarts(s) == {k \in 1..Len(s) : CompositeParen(s, k) > 0}
HasComposite(s) == CompositeStarts(s) # {}
FirstCompositeName(s) ==
    SubSeq(s, SetMin(CompositeStarts(s)), NameEnd(s, SetMin(CompositeStarts(s))) - 1)
FirstCompositeAddress(s) ==
    LET paren == CompositeParen(s, SetMin(CompositeStarts(s)))
    IN SubSeq(s, paren + 1, QuadEnd(s, paren + 1) - 1)

\* Exactly four groups of digits, a dot between each two.
IsFourGroups(t) == QuadEnd(t, 1) = Len(t) + 1

PayloadOf(k) == Payload(HopLines(traceroute_output)[k])

C6_NameOnlyWithOtherAddress ==
    Returned =>
        \A k \in DOMAIN hops :
            /\ hops[k].hostname # None =>
                  hops[k].ip # None /\ hops[k].hostname # hops[k].ip
            /\ (HasComposite(PayloadOf(k))
                  /\ FirstCompositeName(PayloadOf(k)) = FirstCompositeAddress(PayloadOf(k)))
               => hops[k].hostname = None

\* A line that reports its address as its name too, and the record without a name.
C6_Witness ==
    /\ Returned
    /\ \E k \in DOMAIN hops :
          /\ HasComposite(PayloadOf(k))
          /\ FirstCompositeName(PayloadOf(k)) = FirstCompositeAddress(PayloadOf(k))
          /\ hops[k].ip = Some(FirstCompositeAddress(PayloadOf(k)))
          /\ hops[k].hostname = None

C8_NoOutputLost ==
    /\ proc.started => exec_pc # "raised"
    /\ exec_pc = "returned" =>
          Contains(exec_ret, proc.stdout) /\ Contains(exec_ret, proc.stderr)

\* C8, amended: a traceroute that ran never makes execute_traceroute raise; after
\* a non-zero exit status the text returned is standard output, a line break and
\* standard error; after exit status zero it is standard output alone, and what
\* was written to standard error is not returned.
C8_OutputByExitStatus ==
    /\ proc.started => exec_pc # "raised"
    /\ exec_pc = "returned" =>
          IF proc.returncode # 0
          THEN /\ Len(exec_ret) = Len(proc.stdout) + 1 + Len(proc.stderr)
               /\ IsPrefix(proc.stdout, exec_ret)
               /\ exec_ret[Len(proc.stdout) + 1] = "\n"
               /\ IsSuffix(proc.stderr, exec_ret)
          ELSE exec_ret = proc.stdout

\* A failed traceroute, with both its streams in the text returned.
C8_Witness ==
    /\ exec_pc = "returned"
    /\ proc.returncode # 0
    /\ proc.stdout # <<>> /\ proc.stderr # <<>>
    /\ proc.stdout # proc.stderr
    /\ Contains(exec_ret, proc.stdout) /\ Contains(exec_ret, proc.stderr)

(***************************************************************************)
(* visualize_traceroute: the collection loop.                              *)
(***************************************************************************)
\* What the loop does for runs 1..n, in order: a wait before every run but the
\* first, then the capture, the parse of it and the timestamp.
RECURSIVE RunsInOrder(_)
RunsInOrder(n) ==
    IF n = 0 THEN <<>>
    ELSE RunsInOrder(n - 1)
         \o (IF n > 1 THEN <<<<"wait", n>>>> ELSE <<>>)
         \o <<<<"capture", n>>, <<"parse", n>>, <<"stamp", n>>>>

Done(ev) == [k \in DOMAIN ev |-> <<ev[k].kind, ev[k].run>>]
Waits == {k \in DOMAIN events : events[k].kind = "wait"}
EventOf(kind, run) == events[CHOOSE k \in DOMAIN events : events[k].kind = kind /\ events[k].run = run]

\* The records of runs 1..n, each run's parsed from its own capture and tagged
\* with its number and its timestamp.
RECURSIVE RecordsOfRuns(_)
RecordsOfRuns(n) ==
    IF n = 0 THEN <<>>
    ELSE RecordsOfRuns(n - 1)
         \o Tagged(ParseTraceroute(EventOf("capture", n).text).hops, n,
                   EventOf("stamp", n).stamp)

\* C10: the loop does runs 1..N in order, each one capture and then the parse of
\* that capture; the combined records are the runs' records in run order, those
\* of run k tagged k and with the one timestamp of run k; it waits between two
\* runs only, never before the first: N - 1 times.
C10_RunsInOrder ==
    /\ IsPrefix(Done(events), RunsInOrder(num_traces))
    /\ vis_pc \in {"loop", "done"} => all_hops = RecordsOfRuns(i)
    /\ vis_pc = "done" =>
          /\ Done(events) = RunsInOrder(num_traces)
          /\ Cardinality(Waits) = num_traces - 1

\* Two runs done, with records of both, tagged apart.
C10_Witness ==
    /\ vis_pc = "done"
    /\ num_traces = 2
    /\ Cardinality(Waits) = 1
    /\ \E a, b \in DOMAIN all_hops :
          /\ all_hops[a].trace_num = 1 /\ all_hops[b].trace_num = 2
          /\ all_hops[a].timestamp # all_hops[b].timestamp

====
